---- MODULE Spec2Model ----
(***************************************************************************)
(* Model of src/examples/client/streamableHttpWithSseFallbackClient.ts:    *)
(* main(), connectWithBackwardsCompatibility() and the OAuth redirect      *)
(* callback (local HTTP listener on port 8090, codePromise, close timer).  *)
(*                                                                         *)
(* Strings are sequences of tokens, so that concatenation, template        *)
(* literals and "contains" are computed rather than assumed.  The MCP      *)
(* client, the two transports, the browser and the HTTP peers are the      *)
(* environment: their outcomes are drawn with \E from small sets.          *)
(* One action is one run-to-completion step of the event loop: from the    *)
(* resumption of an await (or the firing of a callback) to the next await. *)
(***************************************************************************)
EXTENDS Integers, Sequences, FiniteSets, TLC

VARIABLES
    args,         \* process.argv.slice(2)
    proc,         \* "running" | "exited" | "crashed"
    exitCode,     \* status passed to process.exit (-1: none)
    mainPc,       \* position of main()
    negPc,        \* position of connectWithBackwardsCompatibility()
    constructed,  \* objects constructed so far by the negotiation
    attempts,     \* connect attempts of the negotiation, in start order
    result,       \* value returned by the negotiation
    thrown,       \* error thrown by the negotiation
    log,          \* console output, in order
    listeners,    \* one record per invocation of the redirect callback
    requests,     \* number of inbound HTTP requests handled so far
    handlerSet,   \* main registered the notification handler
    sent,         \* requests main sent, each with the client it went through
    closed        \* transports on which main called close(), in order

vars == <<args, proc, exitCode, mainPc, negPc, constructed, attempts, result,
          thrown, log, listeners, requests, handlerSet, sent, closed>>

----------------------------------------------------------------------------
(* Bounds *)

\* the modern transport invokes the redirect callback at most this often
MaxAuthCalls == 2
\* inbound HTTP requests over the whole run
MaxRequests == 3

----------------------------------------------------------------------------
(* Strings and values *)

DefaultServerUrl == <<"http:", "//", "localhost:3000", "/mcp">>

\* command lines: no argument, an empty argument, a URL, a string that is
\* not an absolute URL
ArgsSet == { <<>>,
             << <<>> >>,
             << <<"http:", "//", "example.org", "/mcp">> >>,
             << <<"example.org", "/mcp">> >> }

\* args[0] || 'http://localhost:3000/mcp'
serverUrl(a) == IF Len(a) >= 1 /\ a[1] # <<>> THEN a[1] ELSE DefaultServerUrl

\* new URL(url) throws a TypeError unless url starts with a scheme
Schemes == {"http:", "https:"}
UrlParses(u) == Len(u) >= 1 /\ u[1] \in Schemes

\* JavaScript values that occur: undefined, a string, an array of strings,
\* an Error
Undefined == [t |-> "undefined", v |-> <<>>]
Str(s) == [t |-> "string", v |-> <<s>>]
Arr(ss) == [t |-> "array", v |-> ss]
Err(name, msg) == [t |-> name, v |-> msg]

\* `${error}`: Error.prototype.toString is name + ": " + message
ErrorToString(e) == <<e.t, ": ">> \o e.v

\* console.log / console.error
Log(text) == [level |-> "log", text |-> text]
LogError(text) == [level |-> "error", text |-> text]

----------------------------------------------------------------------------
(* The redirect callback: listener, request handler, codePromise *)

\* req.url of an inbound request: a path and the query string as the
\* sequence of its key=value pairs
Url(path, query) == [path |-> path, query |-> query]
NoUrl == Url("", <<>>)
ReqUrls == { Url("/callback", <<>>),
             Url("/callback", << <<"code", "abc123">> >>),
             Url("/callback", << <<"code", "">> >>),
             Url("/callback", << <<"code", "">>, <<"code", "">> >>),
             Url("/callback", << <<"error", "access_denied">> >>) }

\* nurl.parse(url, true).query[key]: undefined when the key is absent, the
\* string when it occurs once, the array of its values when it is repeated
QueryParam(url, key) ==
    LET hits == SelectSeq(url.query, LAMBDA p : p[1] = key)
        vals == [i \in 1..Len(hits) |-> hits[i][2]]
    IN  IF Len(vals) = 0 THEN Undefined
        ELSE IF Len(vals) = 1 THEN Str(vals[1])
        ELSE Arr(vals)

\* if (code): undefined and '' are falsy, every array is truthy
Truthy(x) ==
    CASE x.t = "undefined" -> FALSE
      [] x.t = "string"    -> x.v[1] # ""
      [] OTHER             -> TRUE

Pending == [state |-> "pending", value |-> Undefined]

\* Settle without the settle-once rule: the last call wins
SettleOverwrite(p, how, value) == [state |-> how, value |-> value]

\* resolve(value) / reject(error) of codePromise: a promise settles once,
\* a later call of either function has no effect
Settle(p, how, value) ==
    IF p.state = "pending" THEN [state |-> how, value |-> value] ELSE p

NoCodeError == Err("Error", <<"No authorization code provided">>)

\* the body of the http.createServer callback, applied to the listener
\* record l for a request with req.url = url
Handler(l, url) ==
    LET code == QueryParam(url, "code")
    IN  IF Truthy(code)
        THEN [l EXCEPT !.lastStatus = 200,
                       !.promise = Settle(@, "fulfilled", code),
                       !.timers = @ + 1,
                       !.handled = @ + 1,
                       !.lastReq = url]
        ELSE [l EXCEPT !.lastStatus = 400,
                       !.promise = Settle(@, "rejected", NoCodeError),
                       !.handled = @ + 1,
                       !.lastReq = url]

Running == proc = "running"

\* port 8090 is held by an open listener of this process
PortHeld == \E j \in DOMAIN listeners : listeners[j].state = "listening"

HookIdle == \A j \in DOMAIN listeners : listeners[j].hookPc # "awaiting"

LastHook == listeners[Len(listeners)].hookPc

\* The modern transport (client/streamableHttp.js, not part of the example)
\* as the specification (sections 5-7) describes it: connect() may invoke the
\* provider's authorization hook, one invocation at a time, it waits for the
\* hook without a timeout of its own, and a failure of the hook fails the
\* connect.
AuthHookCallable ==
    /\ HookIdle
    /\ Len(listeners) < MaxAuthCalls
    /\ Len(listeners) > 0 => LastHook = "returned"
ModernConnectCanResolve ==
    /\ HookIdle
    /\ Len(listeners) > 0 => LastHook = "returned"
ModernConnectCanReject == HookIdle

\* RedirectToAuthorization launching the browser itself, before it suspends,
\* instead of leaving the launch to the 'listening' callback
RedirectToAuthorizationLaunchFirst ==
    /\ Running /\ negPc = "modern" /\ AuthHookCallable
    /\ listeners' = Append(listeners,
          [state      |-> IF PortHeld THEN "failed" ELSE "listening",
           promise    |-> Pending,
           hookPc     |-> "awaiting",
           handled    |-> 0,
           timers     |-> 0,
           lastReq    |-> NoUrl,
           lastStatus |-> 0,
           browser    |-> "launched"])
    /\ log' = Append(log, Log(<<"Opening browser to: ", "authorizationUrl">>))
    /\ UNCHANGED <<args, proc, exitCode, mainPc, negPc, constructed, attempts,
                   result, thrown, requests, handlerSet, sent, closed>>

\* The modern transport's auth layer calls the provider's redirect callback
\* (lines 103-156 up to `await codePromise`): the promise executor creates the
\* server and calls server.listen(8090, ...), which binds the port at once;
\* the callback then suspends on the pending promise.
RedirectToAuthorization ==
    /\ Running /\ negPc = "modern" /\ AuthHookCallable
    /\ listeners' = Append(listeners,
          [state      |-> IF PortHeld THEN "failed" ELSE "listening",
           promise    |-> Pending,
           hookPc     |-> "awaiting",
           handled    |-> 0,
           timers     |-> 0,
           lastReq    |-> NoUrl,
           lastStatus |-> 0,
           browser    |-> "none"])
    /\ log' = Append(log, Log(<<"Opening browser to: ", "authorizationUrl">>))
    /\ UNCHANGED <<args, proc, exitCode, mainPc, negPc, constructed, attempts,
                   result, thrown, requests, handlerSet, sent, closed>>

\* ListenCallback giving up when the browser cannot be launched: the result
\* is rejected and the server closed
ListenCallbackFailFast(i, launched) ==
    /\ Running
    /\ listeners[i].state = "listening" /\ listeners[i].browser = "none"
    /\ listeners' = [listeners EXCEPT
          ![i].browser = IF launched THEN "launched" ELSE "failed",
          ![i].promise = IF launched THEN @
                         ELSE Settle(@, "rejected",
                                     Err("Error", <<"browser launch failed">>)),
          ![i].state = IF launched THEN @ ELSE "closed"]
    /\ log' = Append(log,
          Log(<<"OAuth callback server started on http://localhost:8090">>))
    /\ UNCHANGED <<args, proc, exitCode, mainPc, negPc, constructed, attempts,
                   result, thrown, requests, handlerSet, sent, closed>>

\* the 'listening' callback of server.listen: log, then exec the platform's
\* open command; exec has no callback, so whether the browser started is
\* not observed by the program
ListenCallback(i, launched) ==
    /\ Running
    /\ listeners[i].state = "listening" /\ listeners[i].browser = "none"
    /\ listeners' = [listeners EXCEPT
          ![i].browser = IF launched THEN "launched" ELSE "failed"]
    /\ log' = Append(log,
          Log(<<"OAuth callback server started on http://localhost:8090">>))
    /\ UNCHANGED <<args, proc, exitCode, mainPc, negPc, constructed, attempts,
                   result, thrown, requests, handlerSet, sent, closed>>

\* server.listen on a port that is in use emits 'error' (EADDRINUSE); the
\* server has no 'error' listener, so the event is an uncaught exception
ListenError(i) ==
    /\ Running
    /\ listeners[i].state = "failed"
    /\ proc' = "crashed"
    /\ exitCode' = 1
    /\ UNCHANGED <<args, mainPc, negPc, constructed, attempts, result, thrown,
                   log, listeners, requests, handlerSet, sent, closed>>

\* an inbound HTTP request reaches an open listener
HandleRequest(i, url) ==
    /\ Running
    /\ listeners[i].state = "listening" /\ listeners[i].browser # "none"
    /\ requests < MaxRequests
    /\ listeners' = [listeners EXCEPT ![i] = Handler(@, url)]
    /\ requests' = requests + 1
    /\ UNCHANGED <<args, proc, exitCode, mainPc, negPc, constructed, attempts,
                   result, thrown, log, handlerSet, sent, closed>>

\* setTimeout(() => server.close(), 1000) fires
CloseTimerFires(i) ==
    /\ Running
    /\ listeners[i].timers > 0
    /\ listeners' = [listeners EXCEPT ![i].timers = @ - 1,
                                      ![i].state = "closed"]
    /\ UNCHANGED <<args, proc, exitCode, mainPc, negPc, constructed, attempts,
                   result, thrown, log, requests, handlerSet, sent, closed>>

\* HookResumes without the await: the callback goes on although the result
\* is still pending
HookResumesWithoutAwait(i) ==
    /\ Running
    /\ listeners[i].hookPc = "awaiting"
    /\ listeners' = [listeners EXCEPT ![i].hookPc =
          IF listeners[i].promise.state = "rejected" THEN "threw"
          ELSE "returned"]
    /\ UNCHANGED <<args, proc, exitCode, mainPc, negPc, constructed, attempts,
                   result, thrown, log, requests, handlerSet, sent, closed>>

\* `await codePromise; return codePromise;` resumes once the promise settled
HookResumes(i) ==
    /\ Running
    /\ listeners[i].hookPc = "awaiting"
    /\ listeners[i].promise.state # "pending"
    /\ listeners' = [listeners EXCEPT ![i].hookPc =
          IF listeners[i].promise.state = "fulfilled" THEN "returned"
          ELSE "threw"]
    /\ UNCHANGED <<args, proc, exitCode, mainPc, negPc, constructed, attempts,
                   result, thrown, log, requests, handlerSet, sent, closed>>

----------------------------------------------------------------------------
(* connectWithBackwardsCompatibility *)

Attempt(kind) == [kind |-> kind, outcome |-> "inflight", reason |-> Undefined]
Finish(a, outcome, reason) == [a EXCEPT !.outcome = outcome, !.reason = reason]

NoResult == [client |-> "none", transport |-> "none", transportType |-> "none"]

\* failures of client.connect(streamableTransport) that do not come from the
\* redirect callback, and failures of sseClient.connect(sseTransport)
ModernErrors == { Err("Error", <<"Error POSTing to endpoint (HTTP 404)">>),
                  Err("TypeError", <<"fetch failed">>) }
LegacyErrors == { Err("SseError", <<"SSE error: Non-200 status code (404)">>) }

\* what client.connect(streamableTransport) can reject with: the error the
\* redirect callback threw, if it threw, else a transport error
ModernFailures ==
    IF Len(listeners) > 0 /\ LastHook = "threw"
    THEN {listeners[Len(listeners)].promise.value}
    ELSE ModernErrors

\* ConnectStart racing both transports: the legacy connect is started
\* together with the modern one
ConnectStartRacing ==
    /\ Running /\ mainPc = "start"
    /\ mainPc' = "negotiating"
    /\ log' = Append(log, Log(<<"1. Trying Streamable HTTP transport first...">>))
    /\ constructed' = constructed \cup
          {"client", "baseUrl", "provider", "streamableTransport",
           "sseTransport", "sseClient"}
    /\ attempts' = <<Attempt("streamable-http"), Attempt("sse")>>
    /\ negPc' = "modern"
    /\ UNCHANGED <<args, proc, exitCode, result, thrown, listeners, requests,
                   handlerSet, sent, closed>>

\* main() up to `await connectWithBackwardsCompatibility(serverUrl)`, and the
\* callee up to `await client.connect(streamableTransport)`
ConnectStart ==
    /\ Running /\ mainPc = "start"
    /\ mainPc' = "negotiating"
    /\ LET url == serverUrl(args)
           banner == << Log(<<"MCP Backwards Compatible Client">>),
                        Log(<<"Connecting to server at: ">> \o url),
                        Log(<<"1. Trying Streamable HTTP transport first...">>) >>
       IN  /\ log' = log \o banner
           /\ IF UrlParses(url)
              THEN /\ constructed' = constructed \cup
                        {"client", "baseUrl", "provider", "streamableTransport"}
                   /\ attempts' = Append(attempts, Attempt("streamable-http"))
                   /\ negPc' = "modern"
                   /\ thrown' = thrown
              ELSE /\ constructed' = constructed \cup {"client"}
                   /\ attempts' = attempts
                   /\ negPc' = "failed"
                   /\ thrown' = Err("TypeError", <<"Invalid URL">>)
    /\ UNCHANGED <<args, proc, exitCode, result, listeners, requests,
                   handlerSet, sent, closed>>

\* ModernConnectSucceeds building the legacy pair as well and reporting the
\* wrong transport kind
ModernConnectSucceedsAsSse ==
    /\ Running /\ negPc = "modern" /\ ModernConnectCanResolve
    /\ attempts' = [attempts EXCEPT ![1] = Finish(@, "ok", Undefined)]
    /\ constructed' = constructed \cup {"sseTransport", "sseClient"}
    /\ result' = [client |-> "client", transport |-> "streamableTransport",
                  transportType |-> "sse"]
    /\ negPc' = "returned"
    /\ UNCHANGED <<args, proc, exitCode, mainPc, thrown, log, listeners,
                   requests, handlerSet, sent, closed>>

\* client.connect(streamableTransport) resolves: lines 164-169
ModernConnectSucceeds ==
    /\ Running /\ negPc = "modern" /\ ModernConnectCanResolve
    /\ attempts' = [attempts EXCEPT ![1] = Finish(@, "ok", Undefined)]
    /\ log' = Append(log,
          Log(<<"Successfully connected using modern Streamable HTTP transport.">>))
    /\ result' = [client |-> "client", transport |-> "streamableTransport",
                  transportType |-> "streamable-http"]
    /\ negPc' = "returned"
    /\ UNCHANGED <<args, proc, exitCode, mainPc, constructed, thrown, listeners,
                   requests, handlerSet, sent, closed>>

\* ModernConnectFails treating a denied authorization as fatal: the error of
\* the redirect callback is rethrown, any other failure falls back
ModernConnectFailsDenialFatal(error) ==
    /\ Running /\ negPc = "modern" /\ ModernConnectCanReject
    /\ error \in ModernFailures
    /\ IF error = NoCodeError
       THEN /\ attempts' = [attempts EXCEPT ![1] = Finish(@, "failed", error)]
            /\ thrown' = error
            /\ negPc' = "failed"
            /\ UNCHANGED <<constructed, log>>
       ELSE /\ attempts' =
                  Append([attempts EXCEPT ![1] = Finish(@, "failed", error)],
                         Attempt("sse"))
            /\ constructed' = constructed \cup {"sseTransport", "sseClient"}
            /\ negPc' = "legacy"
            /\ UNCHANGED <<thrown, log>>
    /\ UNCHANGED <<args, proc, exitCode, mainPc, result, listeners, requests,
                   handlerSet, sent, closed>>

\* ModernConnectFails without the fallback: the modern failure is rethrown
ModernConnectFailsNoFallback(error) ==
    /\ Running /\ negPc = "modern" /\ ModernConnectCanReject
    /\ error \in ModernFailures
    /\ attempts' = [attempts EXCEPT ![1] = Finish(@, "failed", error)]
    /\ thrown' = error
    /\ negPc' = "failed"
    /\ UNCHANGED <<args, proc, exitCode, mainPc, constructed, result, log,
                   listeners, requests, handlerSet, sent, closed>>

\* client.connect(streamableTransport) rejects with error: the catch block,
\* lines 170-193 up to `await sseClient.connect(sseTransport)`
ModernConnectFails(error) ==
    /\ Running /\ negPc = "modern" /\ ModernConnectCanReject
    /\ error \in ModernFailures
    /\ attempts' = Append([attempts EXCEPT ![1] = Finish(@, "failed", error)],
                          Attempt("sse"))
    /\ log' = log \o
          << Log(<<"StreamableHttp transport connection failed: ">>
                 \o ErrorToString(error)),
             Log(<<"2. Falling back to deprecated HTTP+SSE transport...">>) >>
    /\ constructed' = constructed \cup {"sseTransport", "sseClient"}
    /\ negPc' = "legacy"
    /\ UNCHANGED <<args, proc, exitCode, mainPc, result, thrown, listeners,
                   requests, handlerSet, sent, closed>>

\* LegacyConnectSucceeds returning the first client (the one whose connect
\* failed) together with the legacy transport
LegacyConnectSucceedsWrongClient ==
    /\ Running /\ negPc = "legacy"
    /\ attempts' = [attempts EXCEPT ![2] = Finish(@, "ok", Undefined)]
    /\ result' = [client |-> "client", transport |-> "sseTransport",
                  transportType |-> "sse"]
    /\ negPc' = "returned"
    /\ UNCHANGED <<args, proc, exitCode, mainPc, constructed, thrown, log,
                   listeners, requests, handlerSet, sent, closed>>

\* sseClient.connect(sseTransport) resolves: lines 195-200
LegacyConnectSucceeds ==
    /\ Running /\ negPc = "legacy"
    /\ attempts' = [attempts EXCEPT ![2] = Finish(@, "ok", Undefined)]
    /\ log' = Append(log,
          Log(<<"Successfully connected using deprecated HTTP+SSE transport.">>))
    /\ result' = [client |-> "sseClient", transport |-> "sseTransport",
                  transportType |-> "sse"]
    /\ negPc' = "returned"
    /\ UNCHANGED <<args, proc, exitCode, mainPc, constructed, thrown, listeners,
                   requests, handlerSet, sent, closed>>

\* the text of the error thrown when both connects failed (line 203)
NegotiationErrorMessage(error, sseError) ==
    <<"Could not connect to server with any available transport">>

\* NegotiationFailureLog reporting the modern failure only
NegotiationFailureLogModernOnly(error, sseError) ==
    <<"Failed to connect with either transport method:">>
    \o <<"1. Streamable HTTP error: ">> \o ErrorToString(error)

\* the text logged when both connects failed (line 202)
NegotiationFailureLog(error, sseError) ==
    <<"Failed to connect with either transport method:">>
    \o <<"1. Streamable HTTP error: ">> \o ErrorToString(error)
    \o <<"2. SSE error: ">> \o ErrorToString(sseError)

\* sseClient.connect(sseTransport) rejects with sseError: lines 201-204
LegacyConnectFails(sseError) ==
    /\ Running /\ negPc = "legacy"
    /\ sseError \in LegacyErrors
    /\ attempts' = [attempts EXCEPT ![2] = Finish(@, "failed", sseError)]
    /\ log' = Append(log,
          LogError(NegotiationFailureLog(attempts[1].reason, sseError)))
    /\ thrown' = Err("Error",
                     NegotiationErrorMessage(attempts[1].reason, sseError))
    /\ negPc' = "failed"
    /\ UNCHANGED <<args, proc, exitCode, mainPc, constructed, result, listeners,
                   requests, handlerSet, sent, closed>>

----------------------------------------------------------------------------
(* main *)

\* MainCatch reporting the error but leaving through exit status 0
MainCatchExitZero ==
    /\ Running /\ mainPc = "negotiating" /\ negPc = "failed"
    /\ log' = Append(log,
          LogError(<<"Error running client:">> \o ErrorToString(thrown)))
    /\ proc' = "exited"
    /\ exitCode' = 0
    /\ mainPc' = "exited"
    /\ UNCHANGED <<args, negPc, constructed, attempts, result, thrown,
                   listeners, requests, handlerSet, sent, closed>>

\* the negotiation rejected: main's catch block, lines 71-74
MainCatch ==
    /\ Running /\ mainPc = "negotiating" /\ negPc = "failed"
    /\ log' = Append(log,
          LogError(<<"Error running client:">> \o ErrorToString(thrown)))
    /\ proc' = "exited"
    /\ exitCode' = 1
    /\ mainPc' = "exited"
    /\ UNCHANGED <<args, negPc, constructed, attempts, result, thrown,
                   listeners, requests, handlerSet, sent, closed>>

\* the negotiation returned: lines 45-56, up to the tools/list request
MainResume ==
    /\ Running /\ mainPc = "negotiating" /\ negPc = "returned"
    /\ handlerSet' = TRUE
    /\ log' = Append(log, Log(<<"=== Listing Available Tools ===">>))
    /\ sent' = Append(sent, [client |-> result.client, method |-> "tools/list"])
    /\ mainPc' = "listTools"
    /\ UNCHANGED <<args, proc, exitCode, negPc, constructed, attempts, result,
                   thrown, listeners, requests, closed>>

\* listTools settles (its own try/catch swallows a failure), then
\* startNotificationTool sends tools/call: lines 217-229, 58-60, 249-250
ListToolsDone(ok) ==
    /\ Running /\ mainPc = "listTools"
    /\ log' = log \o
          << IF ok THEN Log(<<"Available tools:">>)
             ELSE Log(<<"Tools not supported by this server: ">>),
             Log(<<"=== Starting Notification Stream ===">>),
             Log(<<"Calling notification tool...">>) >>
    /\ sent' = Append(sent, [client |-> result.client, method |-> "tools/call"])
    /\ mainPc' = "callTool"
    /\ UNCHANGED <<args, proc, exitCode, negPc, constructed, attempts, result,
                   thrown, listeners, requests, handlerSet, closed>>

\* startNotificationTool settles (failure swallowed), then main waits 5 s:
\* lines 252-262, 62-64
CallToolDone(ok) ==
    /\ Running /\ mainPc = "callTool"
    /\ log' = log \o
          << IF ok THEN Log(<<"Tool result:">>)
             ELSE Log(<<"Error calling notification tool: ">>),
             Log(<<"=== Waiting for all notifications ===">>) >>
    /\ mainPc' = "waiting"
    /\ UNCHANGED <<args, proc, exitCode, negPc, constructed, attempts, result,
                   thrown, listeners, requests, handlerSet, sent, closed>>

\* WaitElapsed closing the transport built first, whichever connected
WaitElapsedClosesModern ==
    /\ Running /\ mainPc = "waiting"
    /\ log' = Append(log, Log(<<"=== Disconnecting ===">>))
    /\ closed' = Append(closed, "streamableTransport")
    /\ mainPc' = "closing"
    /\ UNCHANGED <<args, proc, exitCode, negPc, constructed, attempts, result,
                   thrown, listeners, requests, handlerSet, sent>>

\* the 5 s timer fires; main calls transport.close(): lines 66-68
WaitElapsed ==
    /\ Running /\ mainPc = "waiting"
    /\ log' = Append(log, Log(<<"=== Disconnecting ===">>))
    /\ closed' = Append(closed, result.transport)
    /\ mainPc' = "closing"
    /\ UNCHANGED <<args, proc, exitCode, negPc, constructed, attempts, result,
                   thrown, listeners, requests, handlerSet, sent>>

\* transport.close() settles: line 69, or the catch block of lines 71-74
CloseDone(ok) ==
    /\ Running /\ mainPc = "closing"
    /\ IF ok
       THEN /\ log' = Append(log, Log(<<"Disconnected from MCP server">>))
            /\ mainPc' = "done"
            /\ UNCHANGED <<proc, exitCode>>
       ELSE /\ log' = Append(log, LogError(<<"Error running client:">>))
            /\ mainPc' = "exited"
            /\ proc' = "exited"
            /\ exitCode' = 1
    /\ UNCHANGED <<args, negPc, constructed, attempts, result, thrown,
                   listeners, requests, handlerSet, sent, closed>>

----------------------------------------------------------------------------
(* Specification *)

Init ==
    /\ args \in ArgsSet
    /\ proc = "running"
    /\ exitCode = -1
    /\ mainPc = "start"
    /\ negPc = "idle"
    /\ constructed = {}
    /\ attempts = <<>>
    /\ result = NoResult
    /\ thrown = Undefined
    /\ log = <<>>
    /\ listeners = <<>>
    /\ requests = 0
    /\ handlerSet = FALSE
    /\ sent = <<>>
    /\ closed = <<>>

Next ==
    \/ ConnectStart
    \/ RedirectToAuthorization
    \/ \E i \in DOMAIN listeners, launched \in BOOLEAN : ListenCallback(i, launched)
    \/ \E i \in DOMAIN listeners : ListenError(i)
    \/ \E i \in DOMAIN listeners, url \in ReqUrls : HandleRequest(i, url)
    \/ \E i \in DOMAIN listeners : CloseTimerFires(i)
    \/ \E i \in DOMAIN listeners : HookResumes(i)
    \/ ModernConnectSucceeds
    \/ \E error \in ModernFailures : ModernConnectFails(error)
    \/ LegacyConnectSucceeds
    \/ \E sseError \in LegacyErrors : LegacyConnectFails(sseError)
    \/ MainCatch
    \/ MainResume
    \/ \E ok \in BOOLEAN : ListToolsDone(ok)
    \/ \E ok \in BOOLEAN : CallToolDone(ok)
    \/ WaitElapsed
    \/ \E ok \in BOOLEAN : CloseDone(ok)

Spec == Init /\ [][Next]_vars

\* What the event loop guarantees: a due timer fires and a settled promise
\* resumes its awaiter.  Nothing is assumed of the network, the servers or
\* the browser.
Scheduled ==
    \/ \E i \in DOMAIN listeners : CloseTimerFires(i)
    \/ \E i \in DOMAIN listeners : HookResumes(i)
    \/ \E i \in DOMAIN listeners, launched \in BOOLEAN : ListenCallback(i, launched)
    \/ MainCatch
    \/ MainResume
    \/ WaitElapsed

FairSpec == Spec /\ WF_vars(Scheduled)

\* FairSpec, and in addition every peer eventually answers: each pending
\* connect, request and close settles and the run goes on while any step is
\* possible.  A behaviour of LiveSpec never stops because the environment
\* stopped.
LiveSpec == FairSpec /\ WF_vars(Next)

----------------------------------------------------------------------------
(* Properties *)

InFlight == {i \in DOMAIN attempts : attempts[i].outcome = "inflight"}
LegacyAttempts == {i \in DOMAIN attempts : attempts[i].kind = "sse"}
ModernFailed == Len(attempts) >= 1 /\ attempts[1].outcome = "failed"
BothFailed ==
    /\ Len(attempts) = 2
    /\ attempts[1].kind = "streamable-http" /\ attempts[1].outcome = "failed"
    /\ attempts[2].kind = "sse" /\ attempts[2].outcome = "failed"

\* sub occurs in s as a contiguous run of tokens
IsInfix(sub, s) ==
    \E k \in 0..(Len(s) - Len(sub)) : \A j \in 1..Len(sub) : s[k + j] = sub[j]

Open(i) == listeners[i].state = "listening"

\* C1: the attempts of one negotiation are strictly sequential: at most one
\* is in flight, the first is the modern one, a legacy attempt exists only
\* as the second attempt after the modern one failed, and once the modern
\* connect has failed there is exactly one legacy attempt.
C1_SequentialFallback ==
    /\ Cardinality(InFlight) <= 1
    /\ Len(attempts) >= 1 => attempts[1].kind = "streamable-http"
    /\ \A i \in LegacyAttempts : i = 2 /\ ModernFailed
    /\ ModernFailed => Cardinality(LegacyAttempts) = 1

\* C1 witness: the modern connect failed and the legacy connect is in flight
C1_Witness ==
    /\ ModernFailed
    /\ Len(attempts) = 2 /\ attempts[2].outcome = "inflight"

\* C2: when the modern connect succeeded, the negotiation has returned
\* transportType 'streamable-http' and neither the legacy transport nor the
\* second client was ever constructed, nor a legacy connect attempted.
C2_ModernSuccessNoLegacy ==
    (Len(attempts) >= 1 /\ attempts[1].outcome = "ok") =>
        /\ negPc = "returned"
        /\ result.transportType = "streamable-http"
        /\ result.transport = "streamableTransport"
        /\ "sseTransport" \notin constructed
        /\ "sseClient" \notin constructed
        /\ LegacyAttempts = {}

\* C2 witness: the modern connect succeeded and main ran to its end
C2_Witness ==
    /\ Len(attempts) = 1 /\ attempts[1].outcome = "ok"
    /\ mainPc = "done"

\* C3 (as claimed): when both connects failed, the error thrown by the
\* negotiation contains the modern and the legacy failure reason.
C3_ThrownErrorCarriesBothReasons ==
    (negPc = "failed" /\ BothFailed) =>
        /\ IsInfix(attempts[1].reason.v, thrown.v)
        /\ IsInfix(attempts[2].reason.v, thrown.v)

\* C4 (as claimed): the negotiation fails only after a failed modern attempt
\* followed by a failed legacy attempt.
C4_FailsOnlyAfterBothAttempts ==
    negPc = "failed" => BothFailed

\* C4 (amended): the negotiation fails only if the server URL does not parse
\* (a TypeError from new URL, before any attempt and before anything but
\* the first client is constructed), or after a failed modern attempt
\* followed by a failed legacy attempt.
C4_FailsOnlyAfterBothAttemptsOrBadUrl ==
    negPc = "failed" =>
        \/ /\ ~UrlParses(serverUrl(args))
           /\ attempts = <<>>
           /\ thrown.t = "TypeError"
           /\ constructed = {"client"}
        \/ /\ UrlParses(serverUrl(args))
           /\ BothFailed
           /\ thrown.t = "Error"

\* C4 witness: a negotiation that failed after both attempts failed
C4_Witness ==
    negPc = "failed" /\ BothFailed /\ UrlParses(serverUrl(args))

\* the query string carries a code parameter with a non-empty value
HasNonEmptyCode(url) ==
    \E k \in DOMAIN url.query :
        url.query[k][1] = "code" /\ url.query[k][2] # ""

\* C5 (as claimed): after the first request to a listener, the result is
\* resolved with the code parameter's value and the response is 200 if the
\* parameter is present and non-empty; otherwise the result is rejected
\* with 'No authorization code provided' and the response is 400.
C5_FirstRequestDecidedByCode ==
    \A i \in DOMAIN listeners :
        listeners[i].handled = 1 =>
            IF HasNonEmptyCode(listeners[i].lastReq)
            THEN /\ listeners[i].promise =
                      [state |-> "fulfilled",
                       value |-> QueryParam(listeners[i].lastReq, "code")]
                 /\ listeners[i].lastStatus = 200
            ELSE /\ listeners[i].promise =
                      [state |-> "rejected", value |-> NoCodeError]
                 /\ listeners[i].lastStatus = 400

\* C6 (as claimed): a listener that has handled a request is eventually
\* closed (its port released), whether the request carried a code or not.
C6_ListenerEventuallyClosed ==
    \A i \in 1..MaxAuthCalls :
        (i \in DOMAIN listeners /\ listeners[i].handled >= 1)
            ~> (i \in DOMAIN listeners /\
                    (listeners[i].state = "closed" \/ ~Running))

\* C7 (as claimed): a listener answers at most one inbound request.
C7_AtMostOneRequestAnswered ==
    \A i \in DOMAIN listeners : listeners[i].handled <= 1

\* C8: the authorization result of an invocation is settled at most once:
\* once codePromise is settled, no step (in particular no later inbound
\* request) changes its state or value, and the callback's own outcome,
\* once produced, is the promise's and stays.
C8_ResultSettledOnce ==
    [][\A i \in DOMAIN listeners :
          /\ listeners[i].promise.state # "pending"
                => listeners'[i].promise = listeners[i].promise
          /\ listeners[i].hookPc # "awaiting"
                => /\ listeners'[i].hookPc = listeners[i].hookPc
                   /\ (listeners[i].hookPc = "returned")
                        = (listeners[i].promise.state = "fulfilled")]_vars

\* C8 witness: a request carrying a code was answered 200 by a listener
\* whose result had already been rejected
C8_Witness ==
    \E i \in DOMAIN listeners :
        /\ listeners[i].handled >= 2
        /\ listeners[i].promise.state = "rejected"
        /\ listeners[i].lastStatus = 200

\* C9 (as claimed): at most one listener holds or tries to bind port 8090
\* at any time.
C9_OneListenerOnPort ==
    Cardinality({i \in DOMAIN listeners :
                    listeners[i].state \in {"listening", "failed"}}) <= 1

\* C10 (as claimed): once the modern attempt has failed and the negotiation
\* has moved on, no listener started by the modern attempt is still open.
C10_NoListenerAfterModernFailure ==
    (ModernFailed /\ negPc \in {"legacy", "returned", "failed"}) =>
        \A i \in DOMAIN listeners : ~Open(i)


\* the client and transport constructed for an attempt of the given kind
PairOf(kind) ==
    IF kind = "streamable-http"
    THEN [client |-> "client", transport |-> "streamableTransport",
          transportType |-> "streamable-http"]
    ELSE [client |-> "sseClient", transport |-> "sseTransport",
          transportType |-> "sse"]

\* C11: when the negotiation has returned, the last attempt is the only one
\* that succeeded and none is in flight; the returned client, transport and
\* transportType are those of that attempt ('sse' after a failed modern
\* connect); and everything main does afterwards goes through the returned
\* pair: every request is sent on the returned client and only the returned
\* transport is closed.
C11_ResultBelongsToSuccessfulAttempt ==
    negPc = "returned" =>
        /\ Len(attempts) >= 1
        /\ attempts[Len(attempts)].outcome = "ok"
        /\ \A i \in 1..(Len(attempts) - 1) : attempts[i].outcome = "failed"
        /\ result = PairOf(attempts[Len(attempts)].kind)
        /\ ModernFailed => result.transportType = "sse"
        /\ \A k \in DOMAIN sent : sent[k].client = result.client
        /\ \A k \in DOMAIN closed : closed[k] = result.transport

\* C11 witness: the fallback path returned and main used and closed the pair
C11_Witness ==
    /\ negPc = "returned" /\ ModernFailed
    /\ result.transportType = "sse"
    /\ Len(sent) = 2 /\ closed = <<"sseTransport">>


\* the modern connect failed because the redirect arrived without a code
DeniedModernFailure ==
    ModernFailed /\ attempts[1].reason = NoCodeError

\* C12: when the modern connect failed with the redirect callback's 'No
\* authorization code provided' error, the legacy connect has been attempted
\* (once, as the second attempt) and the negotiation's position and outcome
\* are those of the legacy attempt alone: waiting while it is in flight,
\* returned with the legacy pair when it succeeded, failed with the same
\* fixed error as after any other modern failure when it failed.
C12_DenialFallsBackLikeAnyFailure ==
    DeniedModernFailure =>
        /\ Len(attempts) = 2 /\ attempts[2].kind = "sse"
        /\ (attempts[2].outcome = "inflight") = (negPc = "legacy")
        /\ (attempts[2].outcome = "ok") = (negPc = "returned")
        /\ (attempts[2].outcome = "failed") = (negPc = "failed")
        /\ negPc = "returned" => result = PairOf("sse")
        /\ negPc = "failed" =>
              thrown = Err("Error",
                  <<"Could not connect to server with any available transport">>)

\* C12 witness: authorization was denied and the legacy connect succeeded
C12_Witness ==
    DeniedModernFailure /\ negPc = "returned" /\ result.transportType = "sse"

\* C13: once the negotiation has failed, main has neither registered the
\* notification handler nor sent a request nor closed a transport, and main
\* is either about to run its catch block (which is enabled) or has ended
\* the process with exit status 1.
C13_NegotiationFailureExitsOne ==
    negPc = "failed" =>
        /\ handlerSet = FALSE /\ sent = <<>> /\ closed = <<>>
        /\ \/ mainPc = "negotiating" /\ proc = "running" /\ ENABLED MainCatch
           \/ mainPc = "exited" /\ proc = "exited" /\ exitCode = 1

\* C13 witness: both attempts failed and the process has exited
C13_Witness ==
    negPc = "failed" /\ BothFailed /\ proc = "exited" /\ exitCode = 1


\* C14 (as claimed): an invocation of the redirect callback that is awaiting
\* the result has started its listener and initiated the browser launch.
C14_LaunchedBeforeAwait ==
    \A i \in DOMAIN listeners :
        /\ listeners[i].state \in {"listening", "closed"}
        /\ listeners[i].browser # "none"

\* C14 (amended): an invocation has called server.listen before it suspends
\* (from its first state on it is awaiting and its listener is bound, or the
\* bind has failed); the browser launch is initiated only by a later step,
\* for an invocation that is already suspended on the pending result and
\* whose listener is bound and has handled no request, and never for a
\* listener whose bind failed.
C14_ListenBeforeAwaitLaunchAfter ==
    [][\A i \in DOMAIN listeners' :
          /\ i \notin DOMAIN listeners =>
                /\ listeners'[i].hookPc = "awaiting"
                /\ listeners'[i].state \in {"listening", "failed"}
                /\ listeners'[i].browser = "none"
          /\ (listeners'[i].browser # "none"
                /\ (i \notin DOMAIN listeners \/ listeners[i].browser = "none"))
                => /\ i \in DOMAIN listeners
                   /\ listeners[i].hookPc = "awaiting"
                   /\ listeners[i].promise = Pending
                   /\ listeners[i].state = "listening"
                   /\ listeners[i].handled = 0
          /\ listeners'[i].state = "failed" => listeners'[i].browser = "none"
          /\ listeners'[i].handled > 0 => listeners'[i].browser # "none"]_vars

\* C14 witness: the browser launch was initiated for an invocation that is
\* suspended on the still pending result
C14_Witness ==
    \E i \in DOMAIN listeners :
        /\ listeners[i].browser = "launched"
        /\ listeners[i].hookPc = "awaiting"
        /\ listeners[i].promise = Pending

\* C15: the step in which the browser launch fails changes neither the
\* pending result nor the listener nor the waiting callback; while no
\* request has been handled after a failed launch the result is pending and
\* the listener open; and a request carrying a code that reaches such a
\* listener while the result is pending resolves the result with that code.
C15_FailedLaunchKeepsWaiting ==
    [][\A i \in DOMAIN listeners :
          /\ (listeners[i].browser = "none" /\ listeners'[i].browser = "failed")
                => /\ listeners'[i].promise = Pending
                   /\ listeners'[i].state = "listening"
                   /\ listeners'[i].hookPc = "awaiting"
                   /\ listeners'[i].timers = 0
          /\ (listeners[i].browser = "failed" /\ listeners[i].handled = 0)
                => /\ listeners[i].promise = Pending
                   /\ listeners[i].state = "listening"
                   /\ listeners[i].hookPc = "awaiting"
          /\ (/\ listeners[i].browser = "failed"
              /\ listeners[i].promise = Pending
              /\ listeners'[i].handled = listeners[i].handled + 1
              /\ HasNonEmptyCode(listeners'[i].lastReq))
                => listeners'[i].promise =
                      [state |-> "fulfilled",
                       value |-> QueryParam(listeners'[i].lastReq, "code")]]_vars

\* C15 witness: after a failed launch a request with code=abc123 resolved
\* the result with that code
C15_Witness ==
    \E i \in DOMAIN listeners :
        /\ listeners[i].browser = "failed"
        /\ listeners[i].handled = 1
        /\ listeners[i].promise = [state |-> "fulfilled", value |-> Str("abc123")]


\* C16: a pending result is settled only by a step in which its listener
\* handles a request; while a listener has handled no request its result is
\* pending and its callback has not returned; and while a callback has not
\* returned the negotiation stays in the modern attempt, which is in flight:
\* it has not returned, not started the legacy attempt and not failed.
C16_OnlyARequestSettles ==
    [][\A i \in DOMAIN listeners :
          /\ (listeners[i].promise = Pending /\ listeners'[i].promise # Pending)
                => listeners'[i].handled = listeners[i].handled + 1
          /\ listeners[i].handled = 0
                => /\ listeners[i].promise = Pending
                   /\ listeners[i].hookPc = "awaiting"
          /\ listeners[i].hookPc = "awaiting"
                => /\ negPc = "modern" /\ negPc' = "modern"
                   /\ attempts = <<Attempt("streamable-http")>>
                   /\ attempts' = attempts
                   /\ result = NoResult /\ thrown = Undefined]_vars

\* C16 witness: the listener is open, the browser launch was initiated, no
\* request has arrived, and the negotiation is waiting in the modern attempt
C16_Witness ==
    \E i \in DOMAIN listeners :
        /\ listeners[i].handled = 0
        /\ listeners[i].browser # "none"
        /\ listeners[i].hookPc = "awaiting"
        /\ negPc = "modern"

\* the log holds an entry of the given level whose text contains every one
\* of the given token runs, at a position before every entry of main's
\* 'Error running client:' report
LoggedBeforeReport(level, parts) ==
    \E k \in DOMAIN log :
        /\ log[k].level = level
        /\ \A p \in parts : IsInfix(p, log[k].text)
        /\ \A m \in DOMAIN log :
              IsInfix(<<"Error running client:">>, log[m].text) => k < m

\* C17: once the modern connect has failed (so from the state in which the
\* legacy attempt is in flight on), the log holds the modern failure reason
\* under the label 'StreamableHttp transport connection failed: '; once both
\* connects have failed (so from the state in which the negotiation error is
\* thrown on), the log holds one console.error entry with both reasons, each
\* after its transport's label; both entries precede main's report of the
\* thrown error.
C17_FailuresLoggedWithLabels ==
    /\ ModernFailed =>
          LoggedBeforeReport("log",
              { <<"StreamableHttp transport connection failed: ">>
                   \o ErrorToString(attempts[1].reason) })
    /\ BothFailed =>
          /\ thrown # Undefined
          /\ LoggedBeforeReport("error",
              { <<"1. Streamable HTTP error: ">>
                   \o ErrorToString(attempts[1].reason),
                <<"2. SSE error: ">>
                   \o ErrorToString(attempts[2].reason) })

\* C17 witness: both connects failed and main reported the thrown error
C17_Witness ==
    /\ BothFailed /\ mainPc = "exited"
    /\ \E m \in DOMAIN log : IsInfix(<<"Error running client:">>, log[m].text)


\* C18 (as claimed): a closed listener's result is resolved with a code.
C18_ClosedImpliesResolved ==
    \A i \in DOMAIN listeners :
        listeners[i].state = "closed" => listeners[i].promise.state = "fulfilled"

\* some log entry has exactly one of the given texts
Logged(texts) == \E k \in DOMAIN log : log[k].text \in texts

ListStepFinished ==
    Logged({ <<"Available tools:">>, <<"Tools not supported by this server: ">> })
CallStepFinished ==
    Logged({ <<"Tool result:">>, <<"Error calling notification tool: ">> })

\* C19: main calls close at most once, only on the transport the
\* negotiation returned, and only after the tool-listing and the tool-call
\* step have both finished (each having sent its request); while those
\* steps run, whatever their outcome, the process keeps running with no
\* exit status and nothing closed, and the close step is enabled as soon as
\* the wait begins; main ends normally with exactly the returned transport
\* closed; after a successful negotiation the process exits (status 1) only
\* when the close itself failed.
C19_ClosesReturnedTransportOnce ==
    /\ Len(closed) <= 1
    /\ closed # <<>> =>
          /\ negPc = "returned"
          /\ closed = <<result.transport>>
          /\ ListStepFinished /\ CallStepFinished
          /\ Len(sent) = 2
          /\ mainPc \in {"closing", "done", "exited"}
    /\ (negPc = "returned" /\ mainPc \in {"listTools", "callTool", "waiting"}) =>
          /\ proc = "running" /\ exitCode = -1 /\ closed = <<>>
          /\ mainPc = "waiting" => ENABLED WaitElapsed
    /\ mainPc = "done" =>
          /\ closed = <<result.transport>>
          /\ proc = "running" /\ exitCode = -1
    /\ (negPc = "returned" /\ proc = "exited") =>
          /\ closed = <<result.transport>>
          /\ exitCode = 1

\* C19 witness: on the fallback path both steps failed and main still closed
\* the legacy transport and ended normally
C19_Witness ==
    /\ mainPc = "done" /\ exitCode = -1
    /\ ModernFailed /\ closed = <<"sseTransport">>
    /\ Logged({ <<"Tools not supported by this server: ">> })
    /\ Logged({ <<"Error calling notification tool: ">> })

====
